---- MODULE Spec2Model ----
(***************************************************************************)
(* A model of the bad-chess rules core: board and game state (board.rs),   *)
(* pseudo-legal move generation, attack detection, legality filtering and  *)
(* the castling validator (moves.rs), request validation (move_input.rs),  *)
(* the move committer and the terminal-state evaluator (game.rs) and the   *)
(* two-player loop that drives them (main.rs).                             *)
(*                                                                         *)
(* Points are <<row, column>> with both coordinates in 0..7, as in the     *)
(* source; a square is a record, Empty or a piece with a side and a type.  *)
(***************************************************************************)
EXTENDS Integers, Sequences, FiniteSets, TLC

\* ------------------------------------------------------------------------
\* board.rs: parameters and data
\* ------------------------------------------------------------------------

SIZE == 8

White == "White"

Black == "Black"

Pawn == "Pawn"

Knight == "Knight"

Bishop == "Bishop"

Rook == "Rook"

Queen == "Queen"

King == "King"

PROMOTION_PIECES == {Knight, Bishop, Rook, Queen}

Point(r, c) == <<r, c>>

Empty == [side |-> "None", typ |-> "Empty"]

full(side, typ) == [side |-> side, typ |-> typ]

get_opposite(side) == IF side = White THEN Black ELSE White

\* INITIAL_POSITIONS
INITIAL_KING(side) == IF side = White THEN Point(0, 4) ELSE Point(7, 4)

\* INITIAL_POSITIONS.*_ROOKS: dir "A" is the .0 member, dir "H" the .1 member
INITIAL_ROOK(side, dir) ==
    Point(IF side = White THEN 0 ELSE 7, IF dir = "A" THEN 0 ELSE 7)

\* CASTLED_POSITIONS.*_KING
CASTLED_KING(side, dir) ==
    Point(IF side = White THEN 0 ELSE 7, IF dir = "A" THEN 2 ELSE 6)

\* CASTLED_POSITIONS.*_ROOKS
CASTLED_ROOK(side, dir) ==
    Point(IF side = White THEN 0 ELSE 7, IF dir = "A" THEN 3 ELSE 5)

\* CASTLE_COLUMNS: the half-open ranges 2..5 and 4..7 of the source
CASTLE_COLUMNS(dir) == IF dir = "A" THEN <<2, 3, 4>> ELSE <<4, 5, 6>>

\* CastleRights::has_right; rights are [White |-> [A, H], Black |-> [A, H]]
has_right(rights, side, dir) == rights[side][dir]

\* KingPositions::get_pos
get_pos(kings, side) == kings[side]

\* ------------------------------------------------------------------------
\* moves.rs: move parameters
\* ------------------------------------------------------------------------

KNIGHT_MOVES ==
    << <<2, 1>>, <<-2, 1>>, <<2, -1>>, <<-2, -1>>,
       <<1, 2>>, <<-1, 2>>, <<1, -2>>, <<-1, -2>> >>

BISHOP_DIRECTIONS == << <<1, 1>>, <<-1, 1>>, <<1, -1>>, <<-1, -1>> >>

ROOK_DIRECTIONS == << <<1, 0>>, <<-1, 0>>, <<0, 1>>, <<0, -1>> >>

KING_MOVES ==
    << <<1, 0>>, <<-1, 0>>, <<0, 1>>, <<0, -1>>,
       <<1, 1>>, <<-1, 1>>, <<1, -1>>, <<-1, -1>> >>

\* The bounds test every generator loop makes on a candidate square
InBoard(r, c) == r >= 0 /\ r < SIZE /\ c >= 0 /\ c < SIZE

\* Vec concatenation of the per-direction results, in direction order
RECURSIVE Concat(_)
Concat(ss) ==
    IF Len(ss) = 0 THEN <<>>
    ELSE IF Len(ss) = 1 THEN ss[1]
    ELSE Concat(SubSeq(ss, 1, Len(ss) \div 2))
            \o Concat(SubSeq(ss, Len(ss) \div 2 + 1, Len(ss)))

\* A conditional Vec::push
PushIf(cond, p) == IF cond THEN <<p>> ELSE <<>>

\* ------------------------------------------------------------------------
\* moves.rs: get_pawn_moves
\* ------------------------------------------------------------------------

\* The indexing get_pawn_moves performs out of the board (a panic): the
\* forward square of a pawn on its last row, and the en-passant branch's
\* unguarded row - 1, row + 1 and col - 1.
PawnPanics(side, row, col, board, pawn_double_moved) ==
    \/ side = White /\ row + 1 >= SIZE
    \/ side # White /\ row - 1 < 0
    \/ /\ pawn_double_moved # <<>>
       /\ row = pawn_double_moved[1][1]
       /\ \/ /\ col = pawn_double_moved[1][2] + 1
             /\ ~(side = White /\ board[row + 1][col - 1] = Empty)
             /\ row - 1 < 0
          \/ /\ col # pawn_double_moved[1][2] + 1
             /\ col + 1 = pawn_double_moved[1][2]
             /\ ~(side = White /\ board[row + 1][col + 1] = Empty)
             /\ (row + 1 >= SIZE \/ col - 1 < 0)

\* Forward moves that take the double step over an occupied square
PawnForwardJumps(side, row, col, board) ==
    IF side = White
    THEN PushIf(board[row + 1][col] = Empty, Point(row + 1, col))
         \o PushIf(row = 1 /\ board[row + 2][col] = Empty, Point(row + 2, col))
    ELSE PushIf(board[row - 1][col] = Empty, Point(row - 1, col))
         \o PushIf(row = SIZE - 2 /\ board[row - 2][col] = Empty, Point(row - 2, col))

\* Forward moves (moves.rs 29-44)
PawnForward(side, row, col, board) ==
    IF side = White
    THEN IF board[row + 1][col] = Empty
         THEN <<Point(row + 1, col)>>
              \o PushIf(row = 1 /\ board[row + 2][col] = Empty, Point(row + 2, col))
         ELSE <<>>
    ELSE IF board[row - 1][col] = Empty
         THEN <<Point(row - 1, col)>>
              \o PushIf(row = SIZE - 2 /\ board[row - 2][col] = Empty, Point(row - 2, col))
         ELSE <<>>

\* Diagonal captures (moves.rs 46-77)
PawnCaptures(side, row, col, board) ==
    LET fr == IF side = White THEN row + 1 ELSE row - 1
        enemy == IF side = White THEN Black ELSE White
    IN  PushIf(col > 0 /\ board[fr][col - 1] # Empty /\ board[fr][col - 1].side = enemy,
               Point(fr, col - 1))
        \o PushIf(col < SIZE - 1 /\ board[fr][col + 1] # Empty
                    /\ board[fr][col + 1].side = enemy,
                  Point(fr, col + 1))

\* En passant moves (moves.rs 79-97); pawn_double_moved is <<>> for None and
\* <<point>> for Some(point)
PawnEnPassant(side, row, col, board, pawn_double_moved) ==
    IF pawn_double_moved = <<>> THEN <<>>
    ELSE LET point == pawn_double_moved[1] IN
         IF row # point[1] THEN <<>>
         ELSE IF col = point[2] + 1
              THEN IF side = White /\ board[row + 1][col - 1] = Empty
                   THEN <<Point(row + 1, col - 1)>>
                   ELSE PushIf(board[row - 1][col - 1] = Empty, Point(row - 1, col - 1))
              ELSE IF col + 1 = point[2]
                   THEN IF side = White /\ board[row + 1][col + 1] = Empty
                        THEN <<Point(row + 1, col + 1)>>
                        ELSE PushIf(board[row + 1][col - 1] = Empty, Point(row + 1, col - 1))
                   ELSE <<>>

\* Defined when ~PawnPanics
get_pawn_moves(side, row, col, board, pawn_double_moved) ==
    PawnForward(side, row, col, board)
    \o PawnCaptures(side, row, col, board)
    \o PawnEnPassant(side, row, col, board, pawn_double_moved)

\* ------------------------------------------------------------------------
\* moves.rs: knight, king, bishop, rook and queen moves
\* ------------------------------------------------------------------------

\* One offset of a knight's or king's loop: in bounds and not a friendly piece
StepMoves(side, row, col, board, dir) ==
    LET r == row + dir[1]
        c == col + dir[2]
    IN  PushIf(InBoard(r, c) /\ (board[r][c] = Empty \/ board[r][c].side # side),
               Point(r, c))

get_knight_moves(side, row, col, board) ==
    Concat([i \in 1..Len(KNIGHT_MOVES) |-> StepMoves(side, row, col, board, KNIGHT_MOVES[i])])

get_king_moves(side, row, col, board) ==
    Concat([i \in 1..Len(KING_MOVES) |-> StepMoves(side, row, col, board, KING_MOVES[i])])

\* A while loop that also takes a friendly piece it runs into
RECURSIVE RayMovesTakesFriends(_, _, _, _, _, _)
RayMovesTakesFriends(side, r, c, dr, dc, board) ==
    IF ~InBoard(r, c) THEN <<>>
    ELSE IF board[r][c] # Empty
         THEN <<Point(r, c)>>
         ELSE <<Point(r, c)>> \o RayMovesTakesFriends(side, r + dr, c + dc, dr, dc, board)

\* One direction's while loop, (r, c) being the square under test
RECURSIVE RayMoves(_, _, _, _, _, _)
RayMoves(side, r, c, dr, dc, board) ==
    IF ~InBoard(r, c) THEN <<>>
    ELSE IF board[r][c] # Empty
         THEN PushIf(board[r][c].side # side, Point(r, c))
         ELSE <<Point(r, c)>> \o RayMoves(side, r + dr, c + dc, dr, dc, board)

SlideMoves(side, row, col, board, dirs) ==
    Concat([i \in 1..Len(dirs) |->
              RayMoves(side, row + dirs[i][1], col + dirs[i][2], dirs[i][1], dirs[i][2], board)])

get_bishop_moves(side, row, col, board) ==
    SlideMoves(side, row, col, board, BISHOP_DIRECTIONS)

get_rook_moves(side, row, col, board) ==
    SlideMoves(side, row, col, board, ROOK_DIRECTIONS)

get_queen_moves(side, row, col, board) ==
    SlideMoves(side, row, col, board, BISHOP_DIRECTIONS \o ROOK_DIRECTIONS)

\* ------------------------------------------------------------------------
\* moves.rs: in_check
\* ------------------------------------------------------------------------

\* One direction's while loop of in_check. The loop condition of the source
\* is square.1 > 0 (not >= 0): a square of column 0 is never examined.
RECURSIVE RayAttack(_, _, _, _, _, _, _)
RayAttack(side, r, c, dr, dc, types, board) ==
    IF ~(r >= 0 /\ r < SIZE /\ c > 0 /\ c < SIZE) THEN FALSE
    ELSE IF board[r][c] # Empty
         THEN board[r][c].typ \in types /\ board[r][c].side # side
         ELSE RayAttack(side, r + dr, c + dc, dr, dc, types, board)

\* Knight attacks (moves.rs 314-326)
KnightAttack(side, pos, board) ==
    \E i \in 1..Len(KNIGHT_MOVES) :
        LET row == pos[1] + KNIGHT_MOVES[i][1]
            col == pos[2] + KNIGHT_MOVES[i][2]
        IN  /\ InBoard(row, col)
            /\ board[row][col] # Empty
            /\ board[row][col].typ = Knight
            /\ board[row][col].side # side

\* Pawn attacks (moves.rs 328-360): the second branch is taken by Black and
\* also by White on the last row, and it looks for White pawns.
PawnAttack(side, pos, board) ==
    IF side = White /\ pos[1] < SIZE - 1
    THEN \/ /\ pos[2] > 0
            /\ board[pos[1] + 1][pos[2] - 1] = full(Black, Pawn)
         \/ /\ pos[2] < SIZE - 1
            /\ board[pos[1] + 1][pos[2] + 1] = full(Black, Pawn)
    ELSE /\ pos[1] > 0
         /\ \/ /\ pos[2] > 0
               /\ board[pos[1] - 1][pos[2] - 1] = full(White, Pawn)
            \/ /\ pos[2] < SIZE - 1
               /\ board[pos[1] - 1][pos[2] + 1] = full(White, Pawn)

in_check(side, pos, board) ==
    \/ \E i \in 1..Len(ROOK_DIRECTIONS) :
          RayAttack(side, pos[1] + ROOK_DIRECTIONS[i][1], pos[2] + ROOK_DIRECTIONS[i][2],
                    ROOK_DIRECTIONS[i][1], ROOK_DIRECTIONS[i][2], {Rook, Queen}, board)
    \/ \E i \in 1..Len(BISHOP_DIRECTIONS) :
          RayAttack(side, pos[1] + BISHOP_DIRECTIONS[i][1], pos[2] + BISHOP_DIRECTIONS[i][2],
                    BISHOP_DIRECTIONS[i][1], BISHOP_DIRECTIONS[i][2], {Bishop, Queen}, board)
    \/ KnightAttack(side, pos, board)
    \/ PawnAttack(side, pos, board)

\* ------------------------------------------------------------------------
\* moves.rs: filter_legal_moves
\* ------------------------------------------------------------------------

\* board[p.0][p.1]
At(board, p) == board[p[1]][p[2]]

\* board[p.0][p.1] = sq
Put(board, p, sq) == [board EXCEPT ![p[1]][p[2]] = sq]

\* Make move on board (moves.rs 259-261)
ProbeMake(board, mov) == Put(Put(board, mov.to, At(board, mov.from)), mov.from, Empty)

\* An unmake that puts the moved piece back and forgets the saved destination
ProbeUnmakeForgetful(board, mov, replaced) == Put(board, mov.from, At(board, mov.to))

\* Unmake move on board (moves.rs 271-272); replaced is the saved destination
ProbeUnmake(board, mov, replaced) ==
    Put(Put(board, mov.from, At(board, mov.to)), mov.to, replaced)

\* A closure that unmakes only the candidates it retains
ProbeKeepRejected(side, mov, board, king_pos) ==
    LET replaced == At(board, mov.to)
        made == ProbeMake(board, mov)
        ok == ~in_check(side, IF mov.from = king_pos THEN mov.to ELSE king_pos, made)
    IN  [legal |-> ok,
         board |-> IF ok THEN ProbeUnmake(made, mov, replaced) ELSE made]

\* One call of the filter closure on the shared board: the verdict and the
\* board the closure leaves behind
Probe(side, mov, board, king_pos) ==
    LET replaced == At(board, mov.to)
        made == ProbeMake(board, mov)
    IN  [legal |-> ~in_check(side, IF mov.from = king_pos THEN mov.to ELSE king_pos, made),
         board |-> ProbeUnmake(made, mov, replaced)]

\* A filter that retains every candidate
filter_keeps_all(side, possible, board, king_pos) == [legal |-> possible, board |-> board]

\* The whole filter run (the callers collect or count the iterator): the
\* retained moves in order, and the board after the last probe. FilterRange
\* runs the probes of possible[lo..hi] in order, each on the board the
\* previous probe left.
RECURSIVE FilterRange(_, _, _, _, _, _)
FilterRange(side, possible, lo, hi, board, king_pos) ==
    IF lo > hi THEN [legal |-> <<>>, board |-> board]
    ELSE IF lo = hi
    THEN LET p == Probe(side, possible[lo], board, king_pos)
         IN  [legal |-> PushIf(p.legal, possible[lo]), board |-> p.board]
    ELSE LET first == FilterRange(side, possible, lo, (lo + hi) \div 2, board, king_pos)
             rest == FilterRange(side, possible, (lo + hi) \div 2 + 1, hi,
                                 first.board, king_pos)
         IN  [legal |-> first.legal \o rest.legal, board |-> rest.board]

filter_legal_moves(side, possible, board, king_pos) ==
    FilterRange(side, possible, 1, Len(possible), board, king_pos)

\* ------------------------------------------------------------------------
\* moves.rs: can_castle
\* ------------------------------------------------------------------------

can_castle(side, dir, board, king_pos) ==
    \A i \in 1..Len(CASTLE_COLUMNS(dir)) :
        LET col == CASTLE_COLUMNS(dir)[i] IN
        /\ ~(col # king_pos[2] /\ board[king_pos[1]][col] # Empty)
        /\ ~in_check(side, Point(king_pos[1], col), board)

\* ------------------------------------------------------------------------
\* move_input.rs: the parsed request and validate_move
\* ------------------------------------------------------------------------

\* File::Row(i), File::Column(i), File::Any
FileRow(i) == [kind |-> "Row", idx |-> i]

FileColumn(i) == [kind |-> "Column", idx |-> i]

FileAny == [kind |-> "Any", idx |-> 0]

\* MoveType: arg is the promotion piece or the castle direction
TypMove == [kind |-> "Move", arg |-> "None"]

TypCapture == [kind |-> "Capture", arg |-> "None"]

TypPromotion(piece) == [kind |-> "Promotion", arg |-> piece]

TypCapturePromotion(piece) == [kind |-> "CapturePromotion", arg |-> piece]

TypCastle(dir) == [kind |-> "Castle", arg |-> dir]

PlayerMove(piece, from, to, typ) == [piece |-> piece, from |-> from, to |-> to, typ |-> typ]

\* TRUE when validate_move returns Ok(())
validate_move(move_data, game) ==
    CASE move_data.typ.kind = "Move" ->
            /\ At(game.board, move_data.to) = Empty
            /\ ~(move_data.piece = Pawn /\ (move_data.to[1] = 0 \/ move_data.to[1] = SIZE - 1))
      [] move_data.typ.kind = "Capture" ->
            At(game.board, move_data.to) # Empty
      [] move_data.typ.kind = "Promotion" ->
            ~(\/ game.turn = White /\ move_data.to[1] < SIZE - 1
              \/ game.turn = Black /\ move_data.to[1] > 0)
      [] move_data.typ.kind = "CapturePromotion" ->
            /\ At(game.board, move_data.to) # Empty
            /\ ~(\/ game.turn = White /\ move_data.to[1] < SIZE - 1
                 \/ game.turn = Black /\ move_data.to[1] > 0)
      [] move_data.typ.kind = "Castle" ->
            /\ has_right(game.castle_rights, game.turn, move_data.typ.arg)
            /\ can_castle(game.turn, move_data.typ.arg, game.board,
                          get_pos(game.king_positions, game.turn))

\* ------------------------------------------------------------------------
\* game.rs: get_moves and get_possible_moves
\* ------------------------------------------------------------------------

\* The (r, c) pairs of "for r in 0..SIZE { for c in 0..SIZE", in loop order
AllSquares == [k \in 1..(SIZE * SIZE) |-> Point((k - 1) \div SIZE, (k - 1) % SIZE)]

Move(from, to) == [from |-> from, to |-> to]

\* get_moves panics exactly when it dispatches to a panicking get_pawn_moves
get_moves_panics(piece, row, col, board, pawn_double_moved) ==
    piece.typ = Pawn /\ PawnPanics(piece.side, row, col, board, pawn_double_moved)

get_moves(piece, row, col, board, pawn_double_moved) ==
    CASE piece.typ = Pawn -> get_pawn_moves(piece.side, row, col, board, pawn_double_moved)
      [] piece.typ = Knight -> get_knight_moves(piece.side, row, col, board)
      [] piece.typ = Bishop -> get_bishop_moves(piece.side, row, col, board)
      [] piece.typ = Rook -> get_rook_moves(piece.side, row, col, board)
      [] piece.typ = Queen -> get_queen_moves(piece.side, row, col, board)
      [] piece.typ = King -> get_king_moves(piece.side, row, col, board)

\* The squares get_possible_moves generates moves for: the origin filter of
\* the request passes, and the square holds a piece of the side to move of
\* the requested type
Candidate(move_data, game, p) ==
    /\ CASE move_data.from.kind = "Row" -> move_data.from.idx = p[1]
         [] move_data.from.kind = "Column" -> move_data.from.idx = p[2]
         [] move_data.from.kind = "Any" -> TRUE
    /\ At(game.board, p) # Empty
    /\ At(game.board, p).side = game.turn
    /\ At(game.board, p).typ = move_data.piece

get_possible_moves_panics(move_data, game) ==
    \E k \in 1..Len(AllSquares) :
        /\ Candidate(move_data, game, AllSquares[k])
        /\ get_moves_panics(At(game.board, AllSquares[k]), AllSquares[k][1], AllSquares[k][2],
                            game.board, game.pawn_double_moved)

\* One push per generated destination equal to the requested one
get_possible_moves(move_data, game) ==
    Concat([k \in 1..Len(AllSquares) |->
        LET p == AllSquares[k] IN
        IF Candidate(move_data, game, p)
        THEN LET dests == get_moves(At(game.board, p), p[1], p[2], game.board,
                                    game.pawn_double_moved)
             IN  [i \in 1..Len(SelectSeq(dests, LAMBDA d : d = move_data.to)) |->
                    Move(p, move_data.to)]
        ELSE <<>>])

\* ------------------------------------------------------------------------
\* game.rs: Game::player_move, from the validated request on
\* ------------------------------------------------------------------------

\* A castle that leaves the turn with the side that castled
CastleCommitKeepsTurn(game, dir) ==
    LET king_pos == get_pos(game.king_positions, game.turn)
        rook_pos == INITIAL_ROOK(game.turn, dir)
        king_mov == CASTLED_KING(game.turn, dir)
        rook_mov == CASTLED_ROOK(game.turn, dir)
    IN  [game EXCEPT
            !.board = Put(Put(Put(Put(game.board, king_mov, At(game.board, king_pos)),
                                  rook_mov, At(game.board, rook_pos)),
                              king_pos, Empty), rook_pos, Empty),
            !.king_positions[game.turn] = king_mov,
            !.castle_rights[game.turn] = [A |-> FALSE, H |-> FALSE]]

\* Handle castle moves (game.rs 51-108): the early return skips the clock
CastleCommit(game, dir) ==
    LET king_pos == get_pos(game.king_positions, game.turn)
        rook_pos == INITIAL_ROOK(game.turn, dir)
        king_mov == CASTLED_KING(game.turn, dir)
        rook_mov == CASTLED_ROOK(game.turn, dir)
        b1 == Put(game.board, king_mov, At(game.board, king_pos))
        b2 == Put(b1, rook_mov, At(b1, rook_pos))
        b3 == Put(b2, king_pos, Empty)
        b4 == Put(b3, rook_pos, Empty)
    IN  [game EXCEPT
            !.board = b4,
            !.king_positions[game.turn] = king_mov,
            !.castle_rights[game.turn] = [A |-> FALSE, H |-> FALSE],
            !.turn = get_opposite(game.turn)]

\* An update in which a rook leaving home costs its side both rights
RightsAfterRookRevokesBoth(game, move_data, mov) ==
    IF move_data.piece = King \/ move_data.piece = Rook
    THEN [game.castle_rights EXCEPT ![game.turn] = [A |-> FALSE, H |-> FALSE]]
    ELSE game.castle_rights

\* Update king position and castle rights (game.rs 140-170)
RightsAfter(game, move_data, mov) ==
    IF move_data.piece = King
    THEN [game.castle_rights EXCEPT ![game.turn] = [A |-> FALSE, H |-> FALSE]]
    ELSE IF move_data.piece = Rook
         THEN IF mov.from = INITIAL_ROOK(game.turn, "A")
              THEN [game.castle_rights EXCEPT ![game.turn].A = FALSE]
              ELSE IF mov.from = INITIAL_ROOK(game.turn, "H")
                   THEN [game.castle_rights EXCEPT ![game.turn].H = FALSE]
                   ELSE game.castle_rights
         ELSE game.castle_rights

\* Update last active ply counter (game.rs 172-184)
ClockAfter(last_active_ply, move_data) ==
    CASE move_data.typ.kind = "Move" ->
            IF move_data.piece = Pawn THEN 0 ELSE last_active_ply + 1
      [] move_data.typ.kind \in {"Capture", "Promotion", "CapturePromotion"} -> 0
      [] move_data.typ.kind = "Castle" -> last_active_ply + 1

\* Make single legal move (game.rs 129-189) on the board the filter left
MoveCommit(game, move_data, mov, board) ==
    LET placed == IF move_data.typ.kind \in {"Promotion", "CapturePromotion"}
                  THEN full(game.turn, move_data.typ.arg)
                  ELSE At(board, mov.from)
    IN  [game EXCEPT
            !.board = Put(Put(board, mov.to, placed), mov.from, Empty),
            !.king_positions =
                IF move_data.piece = King
                THEN [game.king_positions EXCEPT ![game.turn] = mov.to]
                ELSE game.king_positions,
            !.castle_rights = RightsAfter(game, move_data, mov),
            !.last_active_ply = ClockAfter(game.last_active_ply, move_data),
            !.turn = get_opposite(game.turn)]

\* player_move on a parsed request: status Ok (committed), Err (an error
\* string is returned; error names which) or Panic, the game afterwards, and
\* the move made
player_move(game, move_data) ==
    IF ~validate_move(move_data, game)
    THEN [status |-> "Err", game |-> game, mov |-> <<>>,
          error |-> IF move_data.typ.kind = "Castle" THEN "castle" ELSE "invalid"]
    ELSE IF move_data.typ.kind = "Castle"
    THEN [status |-> "Ok", game |-> CastleCommit(game, move_data.typ.arg), mov |-> <<>>,
          error |-> "none"]
    ELSE IF get_possible_moves_panics(move_data, game)
    THEN [status |-> "Panic", game |-> game, mov |-> <<>>, error |-> "none"]
    ELSE LET possible == get_possible_moves(move_data, game) IN
         IF possible = <<>>
         THEN [status |-> "Err", game |-> game, mov |-> <<>>, error |-> "not a move"]
         ELSE LET f == filter_legal_moves(game.turn, possible, game.board,
                                          get_pos(game.king_positions, game.turn))
                  probed == [game EXCEPT !.board = f.board]
              IN  IF f.legal = <<>>
                  THEN [status |-> "Err", game |-> probed, mov |-> <<>>, error |-> "check"]
                  ELSE IF Len(f.legal) > 1
                  THEN [status |-> "Err", game |-> probed, mov |-> <<>>,
                        error |-> "ambiguous"]
                  ELSE [status |-> "Ok",
                        game |-> MoveCommit(probed, move_data, f.legal[1], f.board),
                        mov |-> <<f.legal[1]>>, error |-> "none"]

\* ------------------------------------------------------------------------
\* game.rs: Game::get_game_result
\* ------------------------------------------------------------------------

Win(side) == [kind |-> "Win", arg |-> side]

Draw(typ) == [kind |-> "Draw", arg |-> typ]

GameResultNone == [kind |-> "None", arg |-> "None"]

\* What a panicking call leaves instead of a result
Panicked == [kind |-> "Panic", arg |-> "None"]

\* Count legal moves for each side excluding castling (game.rs 201-229):
\* the loop body on square k. Every piece of either side is generated for,
\* and every batch is filtered for the side to move and its king square.
\* A panic ends the loop.
CountSquare(k, game, acc) ==
    LET p == AllSquares[k]
        piece == At(acc.board, p)
    IN  IF acc.panic \/ piece = Empty THEN acc
        ELSE IF get_moves_panics(piece, p[1], p[2], acc.board, game.pawn_double_moved)
        THEN [acc EXCEPT !.panic = TRUE]
        ELSE LET dests == get_moves(piece, p[1], p[2], acc.board, game.pawn_double_moved)
                 possible == [i \in 1..Len(dests) |-> Move(p, dests[i])]
                 f == filter_legal_moves(game.turn, possible, acc.board,
                                         get_pos(game.king_positions, game.turn))
                 count == Len(f.legal)
             IN  [board |-> f.board,
                  white_moves |-> acc.white_moves + (IF piece.side = White THEN count ELSE 0),
                  black_moves |-> acc.black_moves + (IF piece.side = Black THEN count ELSE 0),
                  panic |-> FALSE]

\* The loop over the squares lo..hi in order, the counts and the board
\* handed from each square to the next
RECURSIVE CountMoves(_, _, _, _)
CountMoves(lo, hi, game, acc) ==
    IF lo = hi THEN CountSquare(lo, game, acc)
    ELSE LET first == CountMoves(lo, (lo + hi) \div 2, game, acc)
         IN  IF first.panic THEN first
             ELSE CountMoves((lo + hi) \div 2 + 1, hi, game, first)

\* The counts of the whole loop, and the board it leaves
LegalCounts(game) ==
    CountMoves(1, Len(AllSquares), game,
               [board |-> game.board, white_moves |-> 0, black_moves |-> 0,
                panic |-> FALSE])

\* The verdict from the counts (game.rs 194-199 and 230-246)
Verdict(game, n) ==
    IF game.last_active_ply = 100 THEN Draw("FiftyMove")
    ELSE IF n.panic THEN Panicked
    ELSE IF n.white_moves = 0
         THEN IF in_check(White, get_pos(game.king_positions, White), n.board)
              THEN Win(Black)
              ELSE Draw("Stalemate")
         ELSE IF n.black_moves = 0
              THEN IF in_check(Black, get_pos(game.king_positions, Black), n.board)
                   THEN Win(White)
                   ELSE Draw("Stalemate")
              ELSE GameResultNone

\* A get_game_result without the fifty-move test
GameResultRunNoFifty(game) ==
    LET n == LegalCounts(game)
    IN  [result |-> Verdict([game EXCEPT !.last_active_ply = 0], n), board |-> n.board]

\* get_game_result takes &mut self: the result, and the board it leaves
\* (the probed board, or the untouched one on the early fifty-move return)
GameResultRun(game) ==
    IF game.last_active_ply = 100
    THEN [result |-> Draw("FiftyMove"), board |-> game.board]
    ELSE LET n == LegalCounts(game)
         IN  [result |-> Verdict(game, n), board |-> n.board]

get_game_result(game) == GameResultRun(game).result

\* ------------------------------------------------------------------------
\* zobrist.rs
\* ------------------------------------------------------------------------

ZOBRIST_SEED == 37811

\* A generator seeded from the construction itself
RngSeedPerCall(call) == call

\* seed_from_u64(ZOBRIST_SEED): the seed the generator of construction
\* number call starts from
RngSeed(call) == ZOBRIST_SEED

\* The n-th u64 (from 0) of the ChaCha8 stream of a seed. The words of a
\* stream are told apart by seed and position, so a key, the XOR of such
\* words, is the set of the words that occur in it an odd number of times.
NextU64(seed, n) == <<seed, n>>

\* Zobrist::new (zobrist.rs 32-58): the draws in order, 12 * 8 * 8 for the
\* piece table, 8 for en_passant, then black_turn and the four castle rights
Zobrist(call) ==
    [piece_table |-> [p \in 0..11 |-> [r \in 0..(SIZE - 1) |-> [c \in 0..(SIZE - 1) |->
                        NextU64(RngSeed(call), p * SIZE * SIZE + r * SIZE + c)]]],
     en_passant |-> [c \in 0..(SIZE - 1) |-> NextU64(RngSeed(call), 12 * SIZE * SIZE + c)],
     black_turn |-> NextU64(RngSeed(call), 12 * SIZE * SIZE + SIZE),
     white_castle_rights |-> [A |-> NextU64(RngSeed(call), 12 * SIZE * SIZE + SIZE + 1),
                              H |-> NextU64(RngSeed(call), 12 * SIZE * SIZE + SIZE + 2)],
     black_castle_rights |-> [A |-> NextU64(RngSeed(call), 12 * SIZE * SIZE + SIZE + 3),
                              H |-> NextU64(RngSeed(call), 12 * SIZE * SIZE + SIZE + 4)]]

\* Get key for piece at square (zobrist.rs 62-76)
get_piece_key(zobrist, piece, square) ==
    LET index == (IF piece.side = White THEN 0 ELSE 6)
                 + (CASE piece.typ = Pawn -> 0 [] piece.typ = Knight -> 1
                      [] piece.typ = Bishop -> 2 [] piece.typ = Rook -> 3
                      [] piece.typ = Queen -> 4 [] piece.typ = King -> 5)
    IN  zobrist.piece_table[index][square[1]][square[2]]

\* key ^= word
Xor(key, word) == IF word \in key THEN key \ {word} ELSE key \cup {word}

\* Update hash with piece positions (zobrist.rs 107-114): every occupied
\* square has a table entry of its own, so the words XORed in are a set
XorPieces(zobrist, board, key) ==
    LET words == {get_piece_key(zobrist, At(board, AllSquares[k]), AllSquares[k]) :
                    k \in {j \in 1..Len(AllSquares) : At(board, AllSquares[j]) # Empty}}
    IN  (key \ words) \cup (words \ key)

\* The pawn beside point that makes the file an en-passant file
\* (zobrist.rs 121-126 and 131-136)
EnPassantNeighbour(board, point, col) ==
    LET piece == board[point[1]][col] IN
    /\ piece.typ = Pawn
    /\ \/ piece.side = White /\ board[point[1] + 1][point[2]] = Empty
       \/ piece.side = Black /\ board[point[1] - 1][point[2]] = Empty

\* Update hash with en passant moves (zobrist.rs 118-139): <<>> for None
EnPassantFile(board, pawn_double_moved) ==
    IF pawn_double_moved = <<>> THEN <<>>
    ELSE LET point == pawn_double_moved[1] IN
         IF point[2] > 0 /\ EnPassantNeighbour(board, point, point[2] - 1)
         THEN <<point[2]>>
         ELSE IF point[2] < SIZE - 1 /\ EnPassantNeighbour(board, point, point[2] + 1)
              THEN <<point[2]>>
              ELSE <<>>

\* ZobristTable::new (zobrist.rs 91-167): the key of the table that
\* construction number call builds
ZobristTableNew(call, side, board, castle_rights, pawn_double_moved) ==
    LET zobrist == Zobrist(call)
        k0 == IF side = White THEN {} ELSE {zobrist.black_turn}
        k1 == XorPieces(zobrist, board, k0)
        ep == EnPassantFile(board, pawn_double_moved)
        k2 == IF ep = <<>> THEN k1 ELSE Xor(k1, zobrist.en_passant[ep[1]])
        k3 == IF castle_rights.White.A THEN Xor(k2, zobrist.white_castle_rights.A) ELSE k2
        k4 == IF castle_rights.White.H THEN Xor(k3, zobrist.white_castle_rights.H) ELSE k3
        k5 == IF castle_rights.Black.A THEN Xor(k4, zobrist.black_castle_rights.A) ELSE k4
        k6 == IF castle_rights.Black.H THEN Xor(k5, zobrist.black_castle_rights.H) ELSE k5
    IN  k6

\* ------------------------------------------------------------------------
\* board.rs: Game::new
\* ------------------------------------------------------------------------

BackRank == <<Rook, Knight, Bishop, Queen, King, Bishop, Knight, Rook>>

InitialBoard ==
    [r \in 0..(SIZE - 1) |-> [c \in 0..(SIZE - 1) |->
        CASE r = 0 -> full(White, BackRank[c + 1])
          [] r = 1 -> full(White, Pawn)
          [] r = SIZE - 2 -> full(Black, Pawn)
          [] r = SIZE - 1 -> full(Black, BackRank[c + 1])
          [] OTHER -> Empty]]

GameNew ==
    [turn |-> White,
     board |-> InitialBoard,
     king_positions |-> [White |-> INITIAL_KING(White), Black |-> INITIAL_KING(Black)],
     castle_rights |-> [White |-> [A |-> TRUE, H |-> TRUE], Black |-> [A |-> TRUE, H |-> TRUE]],
     pawn_double_moved |-> <<>>,
     last_active_ply |-> 0,
     zobrist_key |-> ZobristTableNew(1, White, InitialBoard,
                        [White |-> [A |-> TRUE, H |-> TRUE], Black |-> [A |-> TRUE, H |-> TRUE]],
                        <<>>)]

\* ------------------------------------------------------------------------
\* The state: the fields of Game, the position of main.rs's game loop, and
\* the record of the last player_move call
\* ------------------------------------------------------------------------

VARIABLES
    turn,               \* Game.turn
    board,              \* Game.board
    king_positions,     \* Game.king_positions
    castle_rights,      \* Game.castle_rights
    pawn_double_moved,  \* Game.pawn_double_moved
    last_active_ply,    \* Game.last_active_ply
    zobrist_key,        \* Game.zobrist_table.key
    other_key,          \* the key of a second, independently constructed table
    in_check_value,     \* the last value in_check returned to a direct call
    pc,                 \* start_player_game: "playing", "over" (loop left), "panicked"
    result,             \* the last value get_game_result returned
    plies,              \* how many moves have been committed
    last,               \* the last player_move call: status, request, move, game before
    possible,           \* a filter run: the candidates not yet probed
    probed,             \* a filter run: the candidates already probed
    legal,              \* a filter run: the candidates retained so far
    king_pos,           \* a filter run: the king square it was called with
    origin,             \* a move generator call: the square of the piece
    moves               \* a move generator call: the destinations returned

vars == <<turn, board, king_positions, castle_rights, pawn_double_moved,
          last_active_ply, zobrist_key, other_key, in_check_value, pc, result, plies,
          last, possible, probed, legal, king_pos, origin, moves>>

\* The Game the variables hold
Game ==
    [turn |-> turn,
     board |-> board,
     king_positions |-> king_positions,
     castle_rights |-> castle_rights,
     pawn_double_moved |-> pawn_double_moved,
     last_active_ply |-> last_active_ply,
     zobrist_key |-> zobrist_key]

\* The variables hold game in the next state
SetGame(game) ==
    /\ turn' = game.turn
    /\ board' = game.board
    /\ king_positions' = game.king_positions
    /\ castle_rights' = game.castle_rights
    /\ pawn_double_moved' = game.pawn_double_moved
    /\ last_active_ply' = game.last_active_ply
    /\ zobrist_key' = game.zobrist_key

NoMove == PlayerMove("None", FileAny, Point(0, 0), TypMove)

NoCall ==
    [status |-> "None", move_data |-> NoMove, mov |-> <<>>, error |-> "none",
     before |-> GameNew]

\* No player_move call, and no game either: a function of the program is
\* called directly on board b
NoCallOn(b) ==
    [status |-> "None", move_data |-> NoMove, mov |-> <<>>, error |-> "none",
     before |-> [turn |-> White, board |-> b,
                 king_positions |-> [White |-> Point(0, 0), Black |-> Point(0, 0)],
                 castle_rights |-> [White |-> [A |-> FALSE, H |-> FALSE],
                                    Black |-> [A |-> FALSE, H |-> FALSE]],
                 pawn_double_moved |-> <<>>, last_active_ply |-> 0, zobrist_key |-> {}]]

\* start_player_game before the first request
InitGame ==
    /\ turn = GameNew.turn
    /\ board = GameNew.board
    /\ king_positions = GameNew.king_positions
    /\ castle_rights = GameNew.castle_rights
    /\ pawn_double_moved = GameNew.pawn_double_moved
    /\ last_active_ply = GameNew.last_active_ply
    /\ zobrist_key = GameNew.zobrist_key
    /\ other_key = {}
    /\ in_check_value = FALSE
    /\ pc = "playing"
    /\ result = GameResultNone
    /\ plies = 0
    /\ last = NoCall
    /\ possible = <<>>
    /\ probed = <<>>
    /\ legal = <<>>
    /\ king_pos = Point(0, 0)
    /\ origin = Point(0, 0)
    /\ moves = <<>>

\* Games of at most MaxPlies committed moves are explored
MaxPlies == 8

\* One iteration of start_player_game's loop on the request move_data:
\* player_move, and after a committed move get_game_result, which ends the
\* loop on a win or a draw. A panic ends the program.
PlayWithin(limit, move_data) ==
    /\ pc = "playing"
    /\ plies < limit
    /\ UNCHANGED <<other_key, in_check_value, possible, probed, legal, king_pos, origin, moves>>
    /\ LET r == player_move(Game, move_data) IN
       CASE r.status = "Panic" ->
              /\ pc' = "panicked"
              /\ last' = [status |-> "Panic", move_data |-> move_data, mov |-> <<>>,
                          error |-> "none", before |-> Game]
              /\ UNCHANGED <<turn, board, king_positions, castle_rights,
                             pawn_double_moved, last_active_ply, zobrist_key,
                             result, plies>>
         [] r.status = "Err" ->
              /\ SetGame(r.game)
              /\ last' = [status |-> "Err", move_data |-> move_data, mov |-> <<>>,
                          error |-> r.error, before |-> Game]
              /\ UNCHANGED <<pc, result, plies>>
         [] r.status = "Ok" ->
              LET e == GameResultRun(r.game) IN
              /\ SetGame([r.game EXCEPT !.board = e.board])
              /\ last' = [status |-> "Ok", move_data |-> move_data, mov |-> r.mov,
                          error |-> "none", before |-> Game]
              /\ result' = e.result
              /\ plies' = plies + 1
              /\ pc' = CASE e.result.kind = "None" -> "playing"
                         [] e.result.kind = "Panic" -> "panicked"
                         [] OTHER -> "over"

Play(move_data) == PlayWithin(MaxPlies, move_data)

\* ------------------------------------------------------------------------
\* move_input.rs: the requests parse_move produces
\* ------------------------------------------------------------------------

\* "d3": pawn forward move (move_input.rs 96-108)
PawnPush(to) == PlayerMove(Pawn, FileColumn(to[2]), to, TypMove)

\* "exd6": pawn diagonal capture (move_input.rs 110-121)
PawnTakes(col, to) == PlayerMove(Pawn, FileColumn(col), to, TypCapture)

\* "Qa5": regular piece move (move_input.rs 168-179)
PieceTo(piece, to) == PlayerMove(piece, FileAny, to, TypMove)

\* "Qxe1": piece capture (move_input.rs 188-196)
PieceTakes(piece, to) == PlayerMove(piece, FileAny, to, TypCapture)

\* "O-O" and "O-O-O" (move_input.rs 71-85)
Castle(dir) == PlayerMove(King, FileAny, Point(0, 0), TypCastle(dir))

\* The requests the players choose from: a queen's-side opening for White
\* (d3, Bf4, Qd2, O-O-O, h3, h4) against a queen sortie (c6, Qa5, Qxe1, a6)
Requests ==
    { PawnPush(Point(2, 3)),            \* d3
      PieceTo(Bishop, Point(3, 5)),     \* Bf4
      PieceTo(Queen, Point(1, 3)),      \* Qd2
      Castle("A"),                      \* O-O-O
      PawnPush(Point(2, 7)),            \* h3
      PawnPush(Point(3, 7)),            \* h4
      PawnPush(Point(5, 2)),            \* c6
      PieceTo(Queen, Point(4, 0)),      \* Qa5
      PieceTakes(Queen, Point(0, 4)),   \* Qxe1
      PawnPush(Point(5, 0)) }           \* a6

\* A second repertoire: a fianchetto raid on h8 and a king's pawn advance
\* (b3, Bb2, Bxh8, e4, e5, exd6) against g5, a6, d5
FlankRequests ==
    { PawnPush(Point(2, 1)),            \* b3
      PieceTo(Bishop, Point(1, 1)),     \* Bb2
      PieceTakes(Bishop, Point(7, 7)),  \* Bxh8
      PawnPush(Point(3, 4)),            \* e4
      PawnPush(Point(4, 4)),            \* e5
      PawnTakes(4, Point(5, 3)),        \* exd6
      PawnPush(Point(4, 6)),            \* g5
      PawnPush(Point(5, 0)),            \* a6
      PawnPush(Point(4, 3)) }           \* d5

Init == InitGame

Next == \E move_data \in Requests : Play(move_data)

Spec == Init /\ [][Next]_vars

NextFlank == \E move_data \in FlankRequests : Play(move_data)

SpecFlank == Init /\ [][NextFlank]_vars

\* A third repertoire: a knight pinned on c3 by Bb4 with a second knight
\* that can reach e2, and requests of every kind that is turned down
\* (d3, e4, Nc3, Ne2, Ke2, O-O, Qxe5 against e6, Bb4, a6)
CentreRequests ==
    { PawnPush(Point(2, 3)),            \* d3
      PawnPush(Point(3, 4)),            \* e4
      PieceTo(Knight, Point(2, 2)),     \* Nc3
      PieceTo(Knight, Point(1, 4)),     \* Ne2
      PieceTo(King, Point(1, 4)),       \* Ke2
      Castle("H"),                      \* O-O
      PieceTakes(Queen, Point(4, 4)),   \* Qxe5
      PawnPush(Point(5, 4)),            \* e6
      PieceTo(Bishop, Point(3, 1)),     \* Bb4
      PawnPush(Point(5, 0)) }           \* a6

NextCentre == \E move_data \in CentreRequests : Play(move_data)

SpecCentre == Init /\ [][NextCentre]_vars

\* A fourth repertoire: the rook on h8 is taken on its home square and
\* Black then castles toward it (b3, Bb2, Bxh8, e4 against g5, Bh6, Nf6, O-O)
CornerRequests ==
    { PawnPush(Point(2, 1)),            \* b3
      PieceTo(Bishop, Point(1, 1)),     \* Bb2
      PieceTakes(Bishop, Point(7, 7)),  \* Bxh8
      PawnPush(Point(3, 4)),            \* e4
      PawnPush(Point(4, 6)),            \* g5
      PieceTo(Bishop, Point(5, 7)),     \* Bh6
      PieceTo(Knight, Point(5, 5)),     \* Nf6
      Castle("H") }                     \* O-O

NextCorner == \E move_data \in CornerRequests : Play(move_data)

SpecCorner == Init /\ [][NextCorner]_vars

\* "g8=N": pawn promotion (move_input.rs 122-139)
PawnPromotes(to, piece) == PlayerMove(Pawn, FileColumn(to[2]), to, TypPromotion(piece))

\* "gxh8=Q": pawn capture promotion (move_input.rs 143-158)
PawnTakesPromotes(col, to, piece) ==
    PlayerMove(Pawn, FileColumn(col), to, TypCapturePromotion(piece))

\* A fifth repertoire: the h-pawn marches to the last rank
\* (h4, hxg5, gxh6, h7, then hxg8, hxg8=Q, h8=N or h8 against g5, h6, a6,
\* Nf6, Rg8). The march takes five moves of White, so these games run longer.
MaxMarchPlies == 10

MarchRequests ==
    { PawnPush(Point(3, 7)),                        \* h4
      PawnTakes(7, Point(4, 6)),                    \* hxg5
      PawnTakes(6, Point(5, 7)),                    \* gxh6
      PawnPush(Point(6, 7)),                        \* h7
      PawnTakes(7, Point(7, 6)),                    \* hxg8
      PawnTakesPromotes(7, Point(7, 6), Queen),     \* hxg8=Q
      PawnPromotes(Point(7, 7), Knight),            \* h8=N
      PawnPush(Point(7, 7)),                        \* h8
      PawnPush(Point(4, 6)),                        \* g5
      PawnPush(Point(5, 7)),                        \* h6
      PawnPush(Point(5, 0)),                        \* a6
      PieceTo(Knight, Point(5, 5)),                 \* Nf6
      PieceTo(Rook, Point(7, 6)) }                  \* Rg8

NextMarch == \E move_data \in MarchRequests : PlayWithin(MaxMarchPlies, move_data)

SpecMarch == Init /\ [][NextMarch]_vars

\* A sixth repertoire: rooks and a king that leave their home squares and
\* come back (h4, Rh3, Rh1, e4, Ke2, Ke1 against a5, Ra6, Ra8, e5)
RookRequests ==
    { PawnPush(Point(3, 7)),            \* h4
      PieceTo(Rook, Point(2, 7)),       \* Rh3
      PieceTo(Rook, Point(0, 7)),       \* Rh1
      PawnPush(Point(3, 4)),            \* e4
      PieceTo(King, Point(1, 4)),       \* Ke2
      PieceTo(King, Point(0, 4)),       \* Ke1
      PawnPush(Point(4, 0)),            \* a5
      PieceTo(Rook, Point(5, 0)),       \* Ra6
      PieceTo(Rook, Point(7, 0)),       \* Ra8
      PawnPush(Point(4, 4)) }           \* e5

NextRook == \E move_data \in RookRequests : Play(move_data)

SpecRook == Init /\ [][NextRook]_vars

\* ------------------------------------------------------------------------
\* A run of filter_legal_moves, one call of its closure at a time
\* ------------------------------------------------------------------------

Sides == {White, Black}

Dirs == {"A", "H"}

\* The squares a probed board is populated on, and what they may hold
ProbeSquares == {Point(0, 3), Point(0, 4), Point(7, 4)}

ProbeContents == {Empty, full(White, King), full(White, Knight), full(Black, Rook)}

\* Candidate lists of at most MaxCandidates moves are filtered
MaxCandidates == 2

\* The moves between two different squares of ProbeSquares
ProbeMoves == {Move(f, t) : f, t \in ProbeSquares} \ {Move(f, f) : f \in ProbeSquares}

ProbeLists == UNION {[1..n -> ProbeMoves] : n \in 1..MaxCandidates}

\* The board holding what placed gives on its domain, empty elsewhere
BoardOf(placed) ==
    [r \in 0..(SIZE - 1) |-> [c \in 0..(SIZE - 1) |->
        IF Point(r, c) \in DOMAIN placed THEN placed[Point(r, c)] ELSE Empty]]

\* filter_legal_moves is entered with any side, board, king square and list
InitFilter ==
    /\ turn \in Sides
    /\ \E placed \in [ProbeSquares -> ProbeContents] : board = BoardOf(placed)
    /\ king_pos \in ProbeSquares
    /\ possible \in ProbeLists
    /\ king_positions = [White |-> king_pos, Black |-> king_pos]
    /\ castle_rights = [White |-> [A |-> FALSE, H |-> FALSE],
                        Black |-> [A |-> FALSE, H |-> FALSE]]
    /\ pawn_double_moved = <<>>
    /\ last_active_ply = 0
    /\ zobrist_key = {}
    /\ other_key = {}
    /\ in_check_value = FALSE
    /\ pc = "filtering"
    /\ result = GameResultNone
    /\ plies = 0
    /\ last = NoCallOn(board)
    /\ probed = <<>>
    /\ legal = <<>>
    /\ origin = Point(0, 0)
    /\ moves = <<>>

\* The closure of filter_legal_moves runs on the next candidate
ProbeNext ==
    /\ pc = "filtering"
    /\ possible # <<>>
    /\ LET p == Probe(turn, Head(possible), board, king_pos) IN
       /\ board' = p.board
       /\ legal' = legal \o PushIf(p.legal, Head(possible))
    /\ probed' = Append(probed, Head(possible))
    /\ possible' = Tail(possible)
    /\ UNCHANGED <<turn, king_positions, castle_rights, pawn_double_moved,
                   last_active_ply, zobrist_key, other_key, in_check_value, pc, result,
                   plies, last,
                   king_pos, origin, moves>>

SpecFilter == InitFilter /\ [][ProbeNext]_vars

\* ------------------------------------------------------------------------
\* get_game_result on the positions of late play
\* ------------------------------------------------------------------------

\* Row r counted from the back rank of side
Rel(side, r) == IF side = White THEN r ELSE SIZE - 1 - r

\* The columns an attacker of the back rank stands on, the a-file first
AttackerColumns == 0..4

\* The squares the king of the side that is not to move stands on, away
\* from the play
FarKingSquares(side) == {Point(Rel(side, SIZE - 1), c) : c \in 0..(SIZE - 1)}

MidKingSquares(side) == {Point(Rel(side, 3), c) : c \in 0..(SIZE - 1)}

\* Back-rank mates: the king of side on g1 behind its pawns f2, g2, h2, an
\* enemy rook or queen on the back rank
BackRankBoards(side) ==
    {BoardOf(Point(Rel(side, 0), 6) :> full(side, King)
             @@ Point(Rel(side, 1), 5) :> full(side, Pawn)
             @@ Point(Rel(side, 1), 6) :> full(side, Pawn)
             @@ Point(Rel(side, 1), 7) :> full(side, Pawn)
             @@ Point(Rel(side, 0), c) :> full(get_opposite(side), typ)
             @@ far :> full(get_opposite(side), King)) :
        c \in AttackerColumns, typ \in {Rook, Queen}, far \in FarKingSquares(side)}

\* King-only stalemates: the lone king of side in a corner, the enemy queen
\* a knight's move away
CornerBoards(side) ==
    {BoardOf(Point(r, c) :> full(side, King)
             @@ Point(IF r = 0 THEN 1 ELSE SIZE - 2, IF c = 0 THEN 2 ELSE SIZE - 3)
                  :> full(get_opposite(side), Queen)
             @@ far :> full(get_opposite(side), King)) :
        r \in {0, SIZE - 1}, c \in {0, SIZE - 1}, far \in MidKingSquares(side)}

\* Stalemates on the edge: the lone king of side on h1, an enemy knight on
\* f3 holding g1 and h2, an enemy rook on the second rank holding g2
EdgeStalemateBoards(side) ==
    {BoardOf(Point(Rel(side, 0), 7) :> full(side, King)
             @@ Point(Rel(side, 2), 5) :> full(get_opposite(side), Knight)
             @@ Point(Rel(side, 1), c) :> full(get_opposite(side), Rook)
             @@ far :> full(get_opposite(side), King)) :
        c \in AttackerColumns, far \in FarKingSquares(side)}

\* Double checks: the king of side on e1, an enemy rook on the e-file and
\* an enemy knight that has just left e5 for d3 or f3, uncovering the rook
DoubleCheckBoards(side) ==
    {BoardOf(Point(Rel(side, 0), 4) :> full(side, King)
             @@ Point(Rel(side, n[1]), n[2]) :> full(get_opposite(side), Knight)
             @@ Point(Rel(side, r), 4) :> full(get_opposite(side), Rook)
             @@ far :> full(get_opposite(side), King)) :
        n \in {Point(2, 3), Point(2, 5)},
        r \in 5..(SIZE - 1),
        far \in FarKingSquares(side) \ {Point(Rel(side, SIZE - 1), c) : c \in 3..5}}

\* Double checks by a capture: the king of side on e1, an enemy pawn that
\* has just taken on d2 or f2 from e3, uncovering the rook behind it
PawnDoubleCheckBoards(side) ==
    {BoardOf(Point(Rel(side, 0), 4) :> full(side, King)
             @@ Point(Rel(side, 1), c) :> full(get_opposite(side), Pawn)
             @@ Point(Rel(side, r), 4) :> full(get_opposite(side), Rook)
             @@ far :> full(get_opposite(side), King)) :
        c \in {3, 5},
        r \in 3..(SIZE - 1),
        far \in FarKingSquares(side) \ {Point(Rel(side, SIZE - 1), k) : k \in 3..5}}

EvalBoards(side) ==
    BackRankBoards(side) \cup CornerBoards(side) \cup EdgeStalemateBoards(side)
        \cup DoubleCheckBoards(side) \cup PawnDoubleCheckBoards(side)

\* The square of the board holding the king of side (the cached position)
KingOf(side, b) ==
    CHOOSE p \in {AllSquares[k] : k \in 1..Len(AllSquares)} : At(b, p) = full(side, King)

\* The half-move clocks of the positions: fresh, one short of the fifty-move
\* rule, and at it
EvalClocks == {0, 99, 100}

\* A game that has come to one of the positions, side to move
InitEval ==
    /\ turn \in Sides
    /\ board \in EvalBoards(turn)
    /\ king_positions = [White |-> KingOf(White, board), Black |-> KingOf(Black, board)]
    /\ castle_rights = [White |-> [A |-> FALSE, H |-> FALSE],
                        Black |-> [A |-> FALSE, H |-> FALSE]]
    /\ pawn_double_moved = <<>>
    /\ last_active_ply \in EvalClocks
    /\ zobrist_key = GameNew.zobrist_key
    /\ other_key = {}
    /\ in_check_value = FALSE
    /\ pc = "position"
    /\ result = GameResultNone
    /\ plies = 0
    /\ last = [NoCall EXCEPT !.before.board = board]
    /\ possible = <<>>
    /\ probed = <<>>
    /\ legal = <<>>
    /\ king_pos = Point(0, 0)
    /\ origin = Point(0, 0)
    /\ moves = <<>>

\* get_game_result is called on the position
Evaluate ==
    /\ pc = "position"
    /\ LET e == GameResultRun(Game) IN
       /\ result' = e.result
       /\ board' = e.board
    /\ pc' = "evaluated"
    /\ UNCHANGED <<turn, king_positions, castle_rights, pawn_double_moved,
                   last_active_ply, zobrist_key, other_key, in_check_value, plies, last,
                   possible,
                   probed, legal, king_pos, origin, moves>>

SpecEval == InitEval /\ [][Evaluate]_vars

\* ------------------------------------------------------------------------
\* ZobristTable::new called twice on the same position
\* ------------------------------------------------------------------------

\* The squares that vary over the hashed positions, and what stands there
HashSquares == {Point(3, 3), Point(3, 4), Point(4, 4)}

HashContents == {Empty, full(White, Pawn), full(Black, Pawn)}

HashBoards ==
    {BoardOf(placed @@ INITIAL_KING(White) :> full(White, King)
                    @@ INITIAL_KING(Black) :> full(Black, King)) :
        placed \in [HashSquares -> HashContents]}

\* The double-step slots a position can carry: None, or the square of a pawn
\* of the side that has just moved, two rows from its home row
HashSlots(side, b) ==
    {<<>>} \cup {<<p>> : p \in {q \in HashSquares :
                    /\ At(b, q) = full(get_opposite(side), Pawn)
                    /\ q[1] = (IF side = Black THEN 3 ELSE SIZE - 4)}}

InitZobrist ==
    /\ turn \in Sides
    /\ board \in HashBoards
    /\ king_positions = [White |-> INITIAL_KING(White), Black |-> INITIAL_KING(Black)]
    /\ castle_rights \in [Sides -> [Dirs -> BOOLEAN]]
    /\ pawn_double_moved \in HashSlots(turn, board)
    /\ last_active_ply = 0
    /\ zobrist_key = {}
    /\ other_key = {}
    /\ in_check_value = FALSE
    /\ pc = "unhashed"
    /\ result = GameResultNone
    /\ plies = 0
    /\ last = NoCallOn(board)
    /\ possible = <<>>
    /\ probed = <<>>
    /\ legal = <<>>
    /\ king_pos = Point(0, 0)
    /\ origin = Point(0, 0)
    /\ moves = <<>>

\* A first table is constructed for the position
HashFirst ==
    /\ pc = "unhashed"
    /\ zobrist_key' = ZobristTableNew(1, turn, board, castle_rights, pawn_double_moved)
    /\ pc' = "hashed"
    /\ UNCHANGED <<turn, board, king_positions, castle_rights, pawn_double_moved,
                   last_active_ply, other_key, in_check_value, result, plies, last, possible,
                   probed,
                   legal, king_pos, origin, moves>>

\* A second table is constructed, independently, for the same position
HashSecond ==
    /\ pc = "hashed"
    /\ other_key' = ZobristTableNew(2, turn, board, castle_rights, pawn_double_moved)
    /\ pc' = "rehashed"
    /\ UNCHANGED <<turn, board, king_positions, castle_rights, pawn_double_moved,
                   last_active_ply, zobrist_key, in_check_value, result, plies, last, possible,
                   probed,
                   legal, king_pos, origin, moves>>

NextZobrist == HashFirst \/ HashSecond

SpecZobrist == InitZobrist /\ [][NextZobrist]_vars

\* ------------------------------------------------------------------------
\* in_check called on a square of a sparse board
\* ------------------------------------------------------------------------

\* The squares in_check is asked about: e1, b3, d4, a5 and h8
CheckSquares == {Point(0, 4), Point(2, 1), Point(3, 3), Point(4, 0), Point(7, 7)}

\* The squares a second piece, a knight of the defending side, may stand on
ScreenSquares == {Point(0, 2), Point(2, 2), Point(3, 1), Point(5, 5)}

PieceTypes == {Pawn, Knight, Bishop, Rook, Queen, King}

\* One piece of either side anywhere off the square asked about, alone
\* (screen = the square asked about) or with the screening knight
CheckBoard(side, pos, a, piece, screen) ==
    IF screen = pos THEN BoardOf(a :> piece)
    ELSE BoardOf(a :> piece @@ screen :> full(side, Knight))

InitCheck ==
    /\ turn \in Sides
    /\ king_pos \in CheckSquares
    /\ \E k \in 1..Len(AllSquares), s \in Sides, t \in PieceTypes,
          screen \in ScreenSquares \cup {king_pos} :
          /\ AllSquares[k] \notin {king_pos, screen}
          /\ board = CheckBoard(turn, king_pos, AllSquares[k], full(s, t), screen)
    /\ king_positions = [White |-> king_pos, Black |-> king_pos]
    /\ castle_rights = [White |-> [A |-> FALSE, H |-> FALSE],
                        Black |-> [A |-> FALSE, H |-> FALSE]]
    /\ pawn_double_moved = <<>>
    /\ last_active_ply = 0
    /\ zobrist_key = {}
    /\ other_key = {}
    /\ in_check_value = FALSE
    /\ pc = "unchecked"
    /\ result = GameResultNone
    /\ plies = 0
    /\ last = NoCallOn(board)
    /\ possible = <<>>
    /\ probed = <<>>
    /\ legal = <<>>
    /\ origin = Point(0, 0)
    /\ moves = <<>>

\* in_check(turn, king_pos, &board) is called
CallInCheck ==
    /\ pc = "unchecked"
    /\ in_check_value' = in_check(turn, king_pos, board)
    /\ pc' = "checked"
    /\ UNCHANGED <<turn, board, king_positions, castle_rights, pawn_double_moved,
                   last_active_ply, zobrist_key, other_key, result, plies, last,
                   possible, probed, legal, king_pos, origin, moves>>

SpecCheck == InitCheck /\ [][CallInCheck]_vars

\* ------------------------------------------------------------------------
\* A move generator called on a piece
\* ------------------------------------------------------------------------

\* The row one step ahead of row for side
Ahead(side, row, steps) == IF side = White THEN row + steps ELSE row - steps

\* The pawns the generator is called on: home rows, the rows an en-passant
\* capture starts from, and both edge columns
PawnOrigins == {Point(r, c) : r \in {1, 3, 4, 6}, c \in {0, 3, SIZE - 1}}

\* The squares about the pawn that vary: one and two steps ahead, the two
\* squares diagonally ahead and the two beside it
PawnNeighbourhood(side, p) ==
    {q \in { Point(Ahead(side, p[1], 1), p[2]), Point(Ahead(side, p[1], 2), p[2]),
             Point(Ahead(side, p[1], 1), p[2] - 1), Point(Ahead(side, p[1], 1), p[2] + 1),
             Point(p[1], p[2] - 1), Point(p[1], p[2] + 1) } : InBoard(q[1], q[2])}

PawnContents(side) ==
    {Empty, full(side, Pawn), full(get_opposite(side), Pawn), full(get_opposite(side), Knight)}

\* The double-step slots a board can carry: None, or a pawn two rows from
\* its home row with the two squares it came over empty
DoubleStepSlots(b, squares) ==
    {<<>>} \cup
    {<<q>> : q \in {q \in squares :
        /\ At(b, q).typ = Pawn
        /\ q[1] = (IF At(b, q).side = White THEN 3 ELSE SIZE - 4)
        /\ b[Ahead(At(b, q).side, q[1], -1)][q[2]] = Empty
        /\ b[Ahead(At(b, q).side, q[1], -2)][q[2]] = Empty}}

\* get_moves is about to be called for a pawn
InitPawn ==
    /\ \E side \in Sides : \E p \in PawnOrigins :
       \E placed \in [PawnNeighbourhood(side, p) -> PawnContents(side)] :
          /\ origin = p
          /\ board = BoardOf(placed @@ p :> full(side, Pawn))
          /\ pawn_double_moved \in DoubleStepSlots(board, PawnNeighbourhood(side, p))
          /\ turn = IF pawn_double_moved = <<>> THEN side
                    ELSE get_opposite(At(board, pawn_double_moved[1]).side)
    /\ king_positions = [White |-> INITIAL_KING(White), Black |-> INITIAL_KING(Black)]
    /\ castle_rights = [White |-> [A |-> FALSE, H |-> FALSE],
                        Black |-> [A |-> FALSE, H |-> FALSE]]
    /\ last_active_ply = 0
    /\ zobrist_key = {}
    /\ other_key = {}
    /\ in_check_value = FALSE
    /\ pc = "ungenerated"
    /\ result = GameResultNone
    /\ plies = 0
    /\ last = NoCallOn(board)
    /\ possible = <<>>
    /\ probed = <<>>
    /\ legal = <<>>
    /\ king_pos = Point(0, 0)
    /\ moves = <<>>

\* get_moves(piece, row, col, &board, pawn_double_moved) for the piece on
\* origin (game.rs 341-350): the destinations it returns, or its panic
CallGetMoves ==
    /\ pc = "ungenerated"
    /\ IF get_moves_panics(At(board, origin), origin[1], origin[2], board, pawn_double_moved)
       THEN /\ pc' = "panicked"
            /\ moves' = moves
       ELSE /\ pc' = "generated"
            /\ moves' = get_moves(At(board, origin), origin[1], origin[2], board,
                                  pawn_double_moved)
    /\ UNCHANGED <<turn, board, king_positions, castle_rights, pawn_double_moved,
                   last_active_ply, zobrist_key, other_key, in_check_value, result,
                   plies, last, possible, probed, legal, king_pos, origin>>

SpecPawn == InitPawn /\ [][CallGetMoves]_vars

\* The sliding pieces the generator is called on: a corner, the centre, and
\* two edges
SlideOrigins == {Point(0, 0), Point(3, 3), Point(SIZE - 1, 4), Point(4, SIZE - 1)}

SlidePieces == {Bishop, Rook, Queen}

\* The squares that vary, on and off the lines of the origins, among them
\* (6, 6) behind (5, 5) on the diagonal of (3, 3)
BlockerSquares ==
    {Point(3, 5), Point(5, 3), Point(5, 5), Point(6, 6), Point(1, 1), Point(3, 0),
     Point(0, 3)}

BlockerContents(side) == {Empty, full(side, Knight), full(get_opposite(side), Knight)}

\* get_moves is about to be called for a bishop, a rook or a queen
InitSlide ==
    /\ \E side \in Sides : \E typ \in SlidePieces : \E p \in SlideOrigins :
       \E placed \in [BlockerSquares -> BlockerContents(side)] :
          /\ origin = p
          /\ board = BoardOf(placed @@ p :> full(side, typ))
          /\ turn = side
    /\ king_positions = [White |-> INITIAL_KING(White), Black |-> INITIAL_KING(Black)]
    /\ castle_rights = [White |-> [A |-> FALSE, H |-> FALSE],
                        Black |-> [A |-> FALSE, H |-> FALSE]]
    /\ pawn_double_moved = <<>>
    /\ last_active_ply = 0
    /\ zobrist_key = {}
    /\ other_key = {}
    /\ in_check_value = FALSE
    /\ pc = "ungenerated"
    /\ result = GameResultNone
    /\ plies = 0
    /\ last = NoCallOn(board)
    /\ possible = <<>>
    /\ probed = <<>>
    /\ legal = <<>>
    /\ king_pos = Point(0, 0)
    /\ moves = <<>>

SpecSlide == InitSlide /\ [][CallGetMoves]_vars

\* ------------------------------------------------------------------------
\* What the claims speak of
\* ------------------------------------------------------------------------

\* The squares of the board holding the king of a side
KingSquares(side, b) ==
    {AllSquares[k] : k \in {j \in 1..Len(AllSquares) : At(b, AllSquares[j]) = full(side, King)}}

\* The first occupied square met from (r, c) on in direction (dr, dc), the
\* a-file and the edges included; Empty when the ray leaves the board
RECURSIVE FirstOccupied(_, _, _, _, _)
FirstOccupied(b, r, c, dr, dc) ==
    IF ~InBoard(r, c) THEN Empty
    ELSE IF b[r][c] # Empty THEN b[r][c]
    ELSE FirstOccupied(b, r + dr, c + dc, dr, dc)

\* The square pos of the defending side is attacked by a rook, queen,
\* bishop, knight or pawn of the other side, as chess has it
Attacked(side, pos, b) ==
    LET enemy == get_opposite(side)
        pr == IF side = White THEN pos[1] + 1 ELSE pos[1] - 1
    IN  \/ \E i \in 1..4 :
              LET q == FirstOccupied(b, pos[1] + ROOK_DIRECTIONS[i][1],
                                     pos[2] + ROOK_DIRECTIONS[i][2],
                                     ROOK_DIRECTIONS[i][1], ROOK_DIRECTIONS[i][2])
              IN  q.side = enemy /\ q.typ \in {Rook, Queen}
        \/ \E i \in 1..4 :
              LET q == FirstOccupied(b, pos[1] + BISHOP_DIRECTIONS[i][1],
                                     pos[2] + BISHOP_DIRECTIONS[i][2],
                                     BISHOP_DIRECTIONS[i][1], BISHOP_DIRECTIONS[i][2])
              IN  q.side = enemy /\ q.typ \in {Bishop, Queen}
        \/ \E i \in 1..8 :
              /\ InBoard(pos[1] + KNIGHT_MOVES[i][1], pos[2] + KNIGHT_MOVES[i][2])
              /\ b[pos[1] + KNIGHT_MOVES[i][1]][pos[2] + KNIGHT_MOVES[i][2]] = full(enemy, Knight)
        \/ \E dc \in {-1, 1} :
              /\ InBoard(pr, pos[2] + dc)
              /\ b[pr][pos[2] + dc] = full(enemy, Pawn)

\* The last call committed a move other than a castle
CommittedMove == last.status = "Ok" /\ last.mov # <<>>

\* The side that made the last committed move
Mover == last.before.turn

\* ------------------------------------------------------------------------
\* C1-C7: the committed moves of a game
\* ------------------------------------------------------------------------

\* C1: after any sequence of committed moves from Game::new() the board
\* holds exactly one White king and exactly one Black king.
C1_OneKingPerSide ==
    \A side \in Sides : Cardinality(KingSquares(side, board)) = 1

\* C2: after every committed non-castle move the king of the side that just
\* moved is not attacked by an enemy rook, queen, bishop, knight or pawn.
C2_MoverKingNotAttacked ==
    CommittedMove =>
        \A p \in KingSquares(Mover, board) : ~Attacked(Mover, p, board)

\* The en-passant capture the pawn of the side to move on column col would
\* make of the pawn that has just double-stepped to point
EnPassantFrom(col, point) == Point(point[1], col)

EnPassantTo(point) == Point(IF turn = White THEN point[1] + 1 ELSE point[1] - 1, point[2])

EnPassantBoard(col, point) ==
    Put(Put(Put(board, EnPassantTo(point), full(turn, Pawn)),
            EnPassantFrom(col, point), Empty), point, Empty)

\* C4: when a pawn has just been committed two squares forward, an enemy
\* pawn adjacent to it in the same row can commit the en-passant capture
\* onto the empty square behind it (unless that exposes its own king), and
\* the capture removes the double-stepped pawn.
C4_EnPassantOnNextPly ==
    \A col \in 0..(SIZE - 1) :
        (/\ CommittedMove
         /\ pc = "playing"
         /\ last.move_data.piece = Pawn
         /\ last.mov[1].to[1] - last.mov[1].from[1] \in {2, -2}
         /\ col - last.mov[1].to[2] \in {1, -1}
         /\ At(board, EnPassantFrom(col, last.mov[1].to)) = full(turn, Pawn)
         /\ At(board, EnPassantTo(last.mov[1].to)) = Empty
         /\ \A p \in KingSquares(turn, board) :
               ~Attacked(turn, p, EnPassantBoard(col, last.mov[1].to)))
        => LET r == player_move(Game, PawnTakes(col, EnPassantTo(last.mov[1].to)))
           IN  /\ r.status = "Ok"
               /\ r.game.board = EnPassantBoard(col, last.mov[1].to)

\* C5: a commit in which a side's king leaves its home square (castling
\* included), or a rook leaves its home square, or a rook is captured on its
\* home square, leaves the castle right of that side and direction false.
C5_RightRevokedByEachEvent ==
    last.status = "Ok" =>
        \A side \in Sides : \A dir \in Dirs :
            (\/ /\ Mover = side
                /\ last.move_data.typ.kind = "Castle"
             \/ /\ Mover = side
                /\ last.mov # <<>>
                /\ At(last.before.board, last.mov[1].from) = full(side, King)
                /\ last.mov[1].from = INITIAL_KING(side)
             \/ /\ Mover = side
                /\ last.mov # <<>>
                /\ At(last.before.board, last.mov[1].from) = full(side, Rook)
                /\ last.mov[1].from = INITIAL_ROOK(side, dir)
             \/ /\ Mover # side
                /\ last.mov # <<>>
                /\ At(last.before.board, last.mov[1].to) = full(side, Rook)
                /\ last.mov[1].to = INITIAL_ROOK(side, dir))
            => ~has_right(castle_rights, side, dir)

\* The columns strictly between the king's home column and the rook's
BetweenColumns(dir) == IF dir = "A" THEN {1, 2, 3} ELSE {5, 6}

\* C6: a castling request is rejected, can_castle returning false, whenever
\* a square of the king's row between the king's home column and the chosen
\* rook's home column is occupied (b, c, d toward the a-file; f, g toward
\* the h-file).
C6_BlockedCastleRejected ==
    \A dir \in Dirs :
        (/\ pc = "playing"
         /\ \E col \in BetweenColumns(dir) : board[INITIAL_KING(turn)[1]][col] # Empty)
        => /\ player_move(Game, Castle(dir)).status = "Err"
           /\ has_right(castle_rights, turn, dir)
                => ~can_castle(turn, dir, board, get_pos(king_positions, turn))

\* C7: every commit sets the half-move clock to 0 if it is a pawn move, a
\* capture or a promotion, and to its previous value plus 1 otherwise; a
\* castling commit increments it by 1.
C7_ClockUpdate ==
    last.status = "Ok" =>
        last_active_ply =
            IF /\ last.mov # <<>>
               /\ \/ At(last.before.board, last.mov[1].from).typ = Pawn
                  \/ At(last.before.board, last.mov[1].to) # Empty
                  \/ last.move_data.typ.kind \in {"Promotion", "CapturePromotion"}
            THEN 0
            ELSE last.before.last_active_ply + 1

\* ------------------------------------------------------------------------
\* C3: the legality filter's probe
\* ------------------------------------------------------------------------

\* C3: after filter_legal_moves has probed a candidate (from # to), accepted
\* or rejected, the board is square by square the board before the probe,
\* so whatever has been probed the board is the one the run started with,
\* and the board after the whole run is the board before it.
C3_ProbeRestoresBoard ==
    pc = "filtering" =>
        /\ board = last.before.board
        /\ filter_legal_moves(turn, possible, board, king_pos).board = board

\* Two candidates have been probed, each moving a piece, the first onto an
\* occupied square; one was retained and one rejected
C3_Witness ==
    /\ pc = "filtering"
    /\ Len(probed) = 2
    /\ Len(legal) = 1
    /\ At(board, probed[1].from) # Empty
    /\ At(board, probed[1].to) # Empty
    /\ At(board, probed[2].from) # Empty

\* ------------------------------------------------------------------------
\* C8-C10: the terminal-state evaluator
\* ------------------------------------------------------------------------

\* The legal non-castle moves of side: the generated destinations of its
\* pieces after which its king is not attacked
LegalMoves(side, game) ==
    {m \in UNION {
        LET p == AllSquares[k]
            dests == get_moves(At(game.board, p), p[1], p[2], game.board,
                               game.pawn_double_moved)
        IN  {Move(p, dests[i]) : i \in 1..Len(dests)} :
        k \in {j \in 1..Len(AllSquares) : At(game.board, AllSquares[j]).side = side}} :
        \A q \in KingSquares(side, ProbeMake(game.board, m)) :
            ~Attacked(side, q, ProbeMake(game.board, m))}

KingAttacked(side, b) == \E q \in KingSquares(side, b) : Attacked(side, q, b)

\* C8: when the side to move has no legal non-castle move and its king is
\* attacked by an enemy rook, queen, bishop, knight or pawn, and the clock is
\* not 100, get_game_result returns Win(the other side).
C8_CheckmateIsWin ==
    (/\ pc = "evaluated"
     /\ last_active_ply # 100
     /\ LegalMoves(turn, Game) = {}
     /\ KingAttacked(turn, board))
    => result = Win(get_opposite(turn))

\* C9: when the clock is not 100 and the side to move has a legal non-castle
\* move, get_game_result returns None, whatever the other side's moves are.
C9_MoveLeftIsOngoing ==
    (/\ pc = "evaluated"
     /\ last_active_ply # 100
     /\ LegalMoves(turn, Game) # {})
    => result = GameResultNone

\* C10: when the side to move has no legal non-castle move and its king is
\* not attacked, and the clock is not 100, get_game_result returns
\* Draw(Stalemate).
C10_StalemateIsDraw ==
    (/\ pc = "evaluated"
     /\ last_active_ply # 100
     /\ LegalMoves(turn, Game) = {}
     /\ ~KingAttacked(turn, board))
    => result = Draw("Stalemate")

\* C11: whenever the half-move clock is exactly 100, get_game_result returns
\* Draw(FiftyMove), also when the side to move is checkmated or stalemated.
C11_FiftyMoveFirst ==
    (pc = "evaluated" /\ last_active_ply = 100) => result = Draw("FiftyMove")

\* A checkmated side at clock 100, evaluated
C11_Witness ==
    /\ pc = "evaluated"
    /\ last_active_ply = 100
    /\ LegalMoves(turn, Game) = {}
    /\ KingAttacked(turn, board)
    /\ in_check(turn, get_pos(king_positions, turn), board)
    /\ result = Draw("FiftyMove")

\* ------------------------------------------------------------------------
\* C12-C13: the Zobrist key
\* ------------------------------------------------------------------------

\* The key of the position the variables hold
PositionKey == ZobristTableNew(1, turn, board, castle_rights, pawn_double_moved)

\* C12: after every successfully committed move the stored Zobrist key equals
\* the key of the current position (pieces, side to move, castle rights held,
\* en-passant file); it is never the key of an earlier position.
C12_KeyFollowsPosition ==
    last.status = "Ok" => zobrist_key = PositionKey

C14_ErrLeavesGameUnchanged ==
    last.status = "Err" => Game = last.before

\* A request turned down because every candidate leaves the king in check,
\* after the filter has made and unmade a candidate on the board
C14_Witness ==
    /\ last.status = "Err"
    /\ last.error = "check"
    /\ get_possible_moves(last.move_data, last.before) # <<>>
    /\ Game = last.before

\* C15: after any sequence of committed moves (ordinary and castling), for
\* each side the board square at that side's cached king position holds that
\* side's king.
C15_CachedKingIsOnBoard ==
    \A side \in Sides : At(board, get_pos(king_positions, side)) = full(side, King)

\* The origin squares of the candidates of a request that survive the
\* legality filter: a piece of the side to move, of the requested type, on a
\* square the origin filter admits, with the requested destination among its
\* generated moves, whose move passes the filter's probe
LegalCandidates(game, move_data) ==
    {p \in {AllSquares[k] : k \in 1..Len(AllSquares)} :
        /\ At(game.board, p) = full(game.turn, move_data.piece)
        /\ \/ move_data.from.kind = "Any"
           \/ move_data.from.kind = "Row" /\ move_data.from.idx = p[1]
           \/ move_data.from.kind = "Column" /\ move_data.from.idx = p[2]
        /\ \E i \in 1..Len(get_moves(At(game.board, p), p[1], p[2], game.board,
                                     game.pawn_double_moved)) :
              get_moves(At(game.board, p), p[1], p[2], game.board,
                        game.pawn_double_moved)[i] = move_data.to
        /\ Probe(game.turn, Move(p, move_data.to), game.board,
                 get_pos(game.king_positions, game.turn)).legal}

\* C16: a validated non-castle request is committed if and only if exactly
\* one candidate remains after legality filtering, and then that candidate is
\* the move made; with none or with two or more remaining, an error is
\* returned and nothing is committed. Ambiguity is judged on the legal
\* candidates.
C16_CommitIffOneLegalCandidate ==
    LET n == LegalCandidates(last.before, last.move_data) IN
    /\ (last.status = "Ok" /\ last.move_data.typ.kind # "Castle") =>
          /\ Cardinality(n) = 1
          /\ \A p \in n :
                /\ last.mov = <<Move(p, last.move_data.to)>>
                /\ At(board, p) = Empty
                /\ At(board, last.move_data.to) = At(last.before.board, p)
    /\ (last.status = "Err" /\ last.error \in {"not a move", "check"}) =>
          /\ n = {}
          /\ Game = last.before
    /\ (last.status = "Err" /\ last.error = "ambiguous") =>
          /\ Cardinality(n) >= 2
          /\ Game = last.before

\* Ne2 is committed from g1 while the knight on c3, which also reaches e2, is
\* pinned by the bishop on b4
C16_Witness ==
    /\ last.status = "Ok"
    /\ last.move_data.piece = Knight
    /\ Len(get_possible_moves(last.move_data, last.before)) = 2
    /\ Cardinality(LegalCandidates(last.before, last.move_data)) = 1
    /\ At(board, last.move_data.to) = full(White, Knight)

\* C17: every successful commit, ordinary or castling, flips the side to
\* move exactly once and a failed request never flips it: after n commits
\* from Game::new() the side to move is White if n is even, Black if n is odd.
C17_TurnAlternates ==
    /\ turn = (IF plies % 2 = 0 THEN White ELSE Black)
    /\ last.status = "Ok" => turn = get_opposite(last.before.turn)
    /\ last.status = "Err" => turn = last.before.turn

\* White has castled on its fourth move
C17_Witness ==
    /\ last.status = "Ok"
    /\ last.move_data.typ.kind = "Castle"
    /\ last.before.turn = White
    /\ plies = 7
    /\ turn = Black

\* ------------------------------------------------------------------------
\* C18-C19: in_check
\* ------------------------------------------------------------------------

\* C18: in_check returns true whenever the first occupied square on an
\* orthogonal ray is an enemy rook or queen, or on a diagonal ray an enemy
\* bishop or queen, or an enemy knight stands on a knight offset, or an enemy
\* pawn on a square from which it attacks; attackers on column 0 included.
C18_EveryAttackIsSeen ==
    (pc = "checked" /\ Attacked(turn, king_pos, board)) => in_check_value

\* C19: in_check returns true only if a piece of the opposing side attacks
\* the square; a piece of the defending side never causes a true result, on
\* any row of the square, the last row included.
C19_OnlyAttacksAreSeen ==
    (pc = "checked" /\ in_check_value) => Attacked(turn, king_pos, board)

\* ------------------------------------------------------------------------
\* C20: castling
\* ------------------------------------------------------------------------

\* C20: after a successful castling commit by side S in direction D, S's king
\* stands on its castled square, a rook of S on the castled rook square of D,
\* the king's home square and that rook's home square are empty, and both of
\* S's castle rights are false.
C20_CastleResult ==
    (last.status = "Ok" /\ last.move_data.typ.kind = "Castle") =>
        LET S == last.before.turn
            D == last.move_data.typ.arg
        IN  /\ At(board, CASTLED_KING(S, D)) = full(S, King)
            /\ At(board, CASTLED_ROOK(S, D)) = full(S, Rook)
            /\ At(board, INITIAL_KING(S)) = Empty
            /\ At(board, INITIAL_ROOK(S, D)) = Empty
            /\ ~has_right(castle_rights, S, "A")
            /\ ~has_right(castle_rights, S, "H")

\* ------------------------------------------------------------------------
\* Pawns and the last rank
\* ------------------------------------------------------------------------

\* C21: after any sequence of committed moves no pawn stands on row 0 or
\* row 7 (a pawn reaching the last rank is committed only as a promotion),
\* and get_pawn_moves never indexes the board out of bounds
C21_NoPawnOnLastRank ==
    /\ \A c \in 0..(SIZE - 1) :
           /\ board[0][c].typ # Pawn
           /\ board[SIZE - 1][c].typ # Pawn
    /\ pc # "panicked"

\* ------------------------------------------------------------------------
\* The en-passant file of the key
\* ------------------------------------------------------------------------

\* The side of the pawn in the double-step slot, and the square it skipped
SlotSide == At(board, pawn_double_moved[1]).side

SlotBehind ==
    Point(IF SlotSide = White THEN pawn_double_moved[1][1] - 1
                              ELSE pawn_double_moved[1][1] + 1,
          pawn_double_moved[1][2])

\* C22: ZobristTable::new XORs the en-passant-file key of a column into the
\* key only if the double-stepped pawn stands in that column, a pawn of the
\* opposing side stands beside it in the same row and the square behind it
\* is empty; a pawn of its own side beside it never brings the key in
C22_EnPassantKeyOnlyIfCapturable ==
    pc = "hashed" =>
        \A col \in 0..(SIZE - 1) :
            Zobrist(1).en_passant[col] \in zobrist_key =>
                /\ pawn_double_moved # <<>>
                /\ col = pawn_double_moved[1][2]
                /\ At(board, SlotBehind) = Empty
                /\ \E n \in {col - 1, col + 1} \cap (0..(SIZE - 1)) :
                       board[pawn_double_moved[1][1]][n]
                           = full(get_opposite(SlotSide), Pawn)

\* ------------------------------------------------------------------------
\* The destinations of a pawn
\* ------------------------------------------------------------------------

\* The destinations a call returned
Returned == {moves[i] : i \in 1..Len(moves)}

\* The side of the piece the generator was called on
Caller == At(board, origin).side

\* The en-passant destinations among them: a forward move stays in the
\* pawn's column and a capture lands on an occupied square, so these are
\* the empty squares of another column
EnPassantAdded == {d \in Returned : d[2] # origin[2] /\ At(board, d) = Empty}

\* C23: with a non-empty double-step slot, get_pawn_moves adds an
\* en-passant destination only when the tracked pawn is an enemy pawn beside
\* the moving pawn in the same row, and the destination is the empty square
\* diagonally forward, in the moving side's direction, in the tracked
\* pawn's column; for White and for Black, tracked pawn left or right
C23_EnPassantDestination ==
    (pc = "generated" /\ At(board, origin).typ = Pawn /\ pawn_double_moved # <<>>) =>
        \A d \in EnPassantAdded :
            LET point == pawn_double_moved[1] IN
            /\ At(board, point) = full(get_opposite(Caller), Pawn)
            /\ point[1] = origin[1]
            /\ point[2] \in {origin[2] - 1, origin[2] + 1}
            /\ d = Point(Ahead(Caller, origin[1], 1), point[2])

\* The destinations of a pawn of the calling side on origin when no pawn
\* has just double-stepped
HomeRow(side) == IF side = White THEN 1 ELSE SIZE - 2

PawnDestinations ==
    LET fr == Ahead(Caller, origin[1], 1)
        two == Ahead(Caller, origin[1], 2)
    IN  (IF board[fr][origin[2]] = Empty THEN {Point(fr, origin[2])} ELSE {})
        \cup (IF /\ origin[1] = HomeRow(Caller)
                 /\ board[fr][origin[2]] = Empty
                 /\ board[two][origin[2]] = Empty
              THEN {Point(two, origin[2])} ELSE {})
        \cup {Point(fr, c) : c \in {c \in {origin[2] - 1, origin[2] + 1} :
                /\ InBoard(fr, c)
                /\ board[fr][c] # Empty
                /\ board[fr][c].side = get_opposite(Caller)}}

\* A pawn short of its last rank
ShortOfLastRank == InBoard(Ahead(Caller, origin[1], 1), origin[2])

\* C24: with an empty double-step slot, get_pawn_moves for a pawn not on its
\* last rank returns exactly the empty square one step ahead, the square two
\* steps ahead from the home row when both squares are empty, and each
\* in-board square diagonally ahead that holds an enemy piece
C24_PawnMovesWithoutEnPassant ==
    (/\ pc \in {"generated", "panicked"}
     /\ At(board, origin).typ = Pawn
     /\ pawn_double_moved = <<>>
     /\ ShortOfLastRank) =>
        /\ pc = "generated"
        /\ Returned = PawnDestinations
        /\ Len(moves) = Cardinality(Returned)

\* A pawn on its home row was given both steps and both captures
C24_Witness ==
    /\ pc = "generated"
    /\ At(board, origin).typ = Pawn
    /\ pawn_double_moved = <<>>
    /\ origin[1] = HomeRow(Caller)
    /\ Len(moves) = 4
    /\ \E i \in 1..Len(moves) : At(board, moves[i]).typ = Knight

\* ------------------------------------------------------------------------
\* The destinations of a bishop, a rook and a queen
\* ------------------------------------------------------------------------

Diagonals == {<<1, 1>>, <<1, -1>>, <<-1, 1>>, <<-1, -1>>}

Orthogonals == {<<1, 0>>, <<-1, 0>>, <<0, 1>>, <<0, -1>>}

\* The directions the piece on origin walks
Walks ==
    CASE At(board, origin).typ = Bishop -> Diagonals
      [] At(board, origin).typ = Rook -> Orthogonals
      [] At(board, origin).typ = Queen -> Diagonals \cup Orthogonals
      [] OTHER -> {}

\* The square k steps from origin in direction d
Step(d, k) == Point(origin[1] + k * d[1], origin[2] + k * d[2])

\* The squares the walks reach: in the board, every square before it
\* empty, and itself empty or holding an enemy piece
SlideDestinations ==
    {Step(d, k) : <<d, k>> \in {dk \in Walks \X (1..(SIZE - 1)) :
        /\ InBoard(Step(dk[1], dk[2])[1], Step(dk[1], dk[2])[2])
        /\ \A j \in 1..(dk[2] - 1) : At(board, Step(dk[1], j)) = Empty
        /\ At(board, Step(dk[1], dk[2])).side # Caller}}

\* C25: get_bishop_moves, get_rook_moves and get_queen_moves return exactly
\* the squares reached by walking each of the piece's directions from the
\* origin: every empty square up to the first occupied square or the edge,
\* and that occupied square if and only if it holds an enemy piece
C25_SlidingMoves ==
    (pc \in {"generated", "panicked"} /\ At(board, origin).typ \in SlidePieces) =>
        /\ pc = "generated"
        /\ Returned = SlideDestinations
        /\ Len(moves) = Cardinality(Returned)

\* A queen in the centre stopped by a friendly knight on its row and taking
\* an enemy knight on its diagonal, with a piece standing behind that one
C25_Witness ==
    /\ pc = "generated"
    /\ At(board, origin).typ = Queen
    /\ origin = Point(3, 3)
    /\ At(board, Point(3, 5)) = full(Caller, Knight)
    /\ At(board, Point(5, 5)) = full(get_opposite(Caller), Knight)
    /\ At(board, Point(6, 6)) # Empty
    /\ Point(5, 5) \in Returned
    /\ Point(3, 4) \in Returned

\* ------------------------------------------------------------------------
\* Castle rights over a game
\* ------------------------------------------------------------------------

\* The rights other than side's dir right
OtherRights(side, dir) == {sd \in Sides \X Dirs : sd # <<side, dir>>}

\* C26: castle rights are monotone over any sequence of player_move calls
\* (a right that is false stays false), and a commit that revokes a single
\* rook's right, a rook leaving its home square, leaves the other three
\* rights unchanged
C26_RightsMonotone ==
    /\ \A side \in Sides : \A dir \in Dirs :
           ~has_right(last.before.castle_rights, side, dir)
               => ~has_right(castle_rights, side, dir)
    /\ \A dir \in Dirs :
           (/\ CommittedMove
            /\ last.move_data.piece = Rook
            /\ last.mov[1].from = INITIAL_ROOK(Mover, dir)) =>
               /\ ~has_right(castle_rights, Mover, dir)
               /\ \A sd \in OtherRights(Mover, dir) :
                      has_right(castle_rights, sd[1], sd[2])
                          = has_right(last.before.castle_rights, sd[1], sd[2])

\* A rook left its home square while all four rights were held
C26_Witness ==
    /\ CommittedMove
    /\ last.move_data.piece = Rook
    /\ last.mov[1].from = INITIAL_ROOK(Mover, "H")
    /\ \A side \in Sides : \A dir \in Dirs :
           has_right(last.before.castle_rights, side, dir)
    /\ ~has_right(castle_rights, Mover, "H")

====
